---------------------------- MODULE Spec2Model ----------------------------
(***************************************************************************)
(* The read path of the blockchain explorer: the setup_database wrapper    *)
(* (src/src/decorator.py) that serialises every request behind one lock    *)
(* and opens a read-only handle, and the DatabaseGatherer queries          *)
(* (src/src/database_gatherer.py) it runs against the key-value store.     *)
(*                                                                         *)
(* Strings and bytes are sequences of ASCII codes, so that str(), int(),   *)
(* split() and the store's byte-wise key order are computed, not assumed.  *)
(***************************************************************************)
EXTENDS Integers, Sequences, FiniteSets

(***************************************************************************)
(* Bounds of the model.                                                    *)
(***************************************************************************)
NumRequests == 2      \* concurrent requests going through the wrapper
MaxBlock == 3         \* block indexes are 1..MaxBlock
MaxTx == 2            \* transaction indexes are 1..MaxTx
MaxLimit == 2         \* limit / no_tx_list arguments are 0..MaxLimit
BigTime == 10         \* a timestamp of two decimal digits

(***************************************************************************)
(* Characters.                                                             *)
(***************************************************************************)
Zero == 48            \* '0'
Dash == 45            \* '-'
Plus == 43            \* '+'
Bar == 124            \* '|'
LetterA == 97         \* 'a'
LetterH == 104        \* 'h'
LetterT == 116        \* 't'
LetterX == 120        \* 'x'

\* str(n) for n >= 0: the decimal digits, most significant first.
RECURSIVE Str(_)
Str(n) == IF n < 10 THEN <<Zero + n>>
          ELSE Append(Str(n \div 10), Zero + (n % 10))

\* int(s) for a non-empty string of decimal digits.
RECURSIVE ParseInt(_)
ParseInt(s) == IF Len(s) = 1 THEN s[1] - Zero
               ELSE 10 * ParseInt(SubSeq(s, 1, Len(s) - 1)) + (s[Len(s)] - Zero)

\* s.split(sep): the pieces between the separators; ''.split(sep) is [''].
RECURSIVE Split(_, _)
Split(s, sep) ==
    IF \E i \in 1..Len(s) : s[i] = sep
    THEN LET i == CHOOSE k \in 1..Len(s) :
                      s[k] = sep /\ \A j \in 1..(k - 1) : s[j] # sep
         IN  <<SubSeq(s, 1, i - 1)>> \o Split(SubSeq(s, i + 1, Len(s)), sep)
    ELSE <<s>>

\* Byte-wise (lexicographic) order of keys, as the store orders them.
RECURSIVE LexLeq(_, _)
LexLeq(a, b) ==
    IF a = <<>> THEN TRUE
    ELSE IF b = <<>> THEN FALSE
    ELSE IF a[1] # b[1] THEN a[1] < b[1]
    ELSE LexLeq(Tail(a), Tail(b))

(***************************************************************************)
(* Results of a query: a value, the absence value None, or an exception    *)
(* leaving the query.                                                      *)
(***************************************************************************)
Value(v) == [kind |-> "Value", val |-> v]
None == [kind |-> "None", val |-> "None"]
Error(e) == [kind |-> "Error", val |-> e]

(***************************************************************************)
(* The store: one function per prefixed key space, from key to raw value.  *)
(* A point read gives the raw value in a one-element sequence, or <<>>     *)
(* for Python's None.                                                      *)
(***************************************************************************)
Get(kv, key) == IF key \in DOMAIN kv THEN <<kv[key]>> ELSE <<>>

\* iterator(start, stop): the entries with start <= key <= stop in
\* ascending byte order of the key, as <<key, value>> pairs.
RECURSIVE SortedKeys(_)
SortedKeys(keys) ==
    IF keys = {} THEN <<>>
    ELSE LET m == CHOOSE k \in keys : \A o \in keys : LexLeq(k, o)
         IN  <<m>> \o SortedKeys(keys \ {m})

Iterator(kv, start, stop) ==
    LET keys == {k \in DOMAIN kv : LexLeq(start, k) /\ LexLeq(k, stop)}
        order == SortedKeys(keys)
    IN  [i \in 1..Len(order) |-> <<order[i], kv[order[i]]>>]

\* coder.decode_block / decode_transaction / decode_address: the structured
\* record of a raw value; decoding None raises.
Decode(raw) == IF raw = <<>> THEN Error("AttributeError") ELSE Value(raw[1])

(***************************************************************************)
(* DatabaseGatherer.  db is the record of the six prefixed key spaces:     *)
(* blocks, block_hash, block_timestamp, transaction, tx_hash, address.     *)
(***************************************************************************)

\* FetchTransactions with the missing-transaction check dropped: a missing
\* index is skipped and the rest of the range is still returned.
RECURSIVE FetchTransactionsSkip(_, _, _, _)
FetchTransactionsSkip(db, i, tx_end, transactions) ==
    IF i > tx_end THEN Value(transactions)
    ELSE LET raw_tx == Get(db.transaction, Str(i))
         IN  IF raw_tx = <<>>
             THEN FetchTransactionsSkip(db, i + 1, tx_end, transactions)
             ELSE FetchTransactionsSkip(db, i + 1, tx_end,
                                        Append(transactions, Decode(raw_tx).val))

\* The point-read loop over a block's declared range: transactions
\* tx_start..tx_end in ascending order, or None at the first missing one.
RECURSIVE FetchTransactions(_, _, _, _)
FetchTransactions(db, i, tx_end, transactions) ==
    IF i > tx_end THEN Value(transactions)
    ELSE LET raw_tx == Get(db.transaction, Str(i))
         IN  IF raw_tx = <<>> THEN None
             ELSE FetchTransactions(db, i + 1, tx_end,
                                    Append(transactions, Decode(raw_tx).val))

\* A decoded block with its transactionIndexRange replaced by the list of
\* its transactions.
ReconstructBlock(db, block) ==
    LET transaction_range == Split(block.transactionIndexRange, Dash)
    IN  IF transaction_range = << <<>> >>
        THEN Value([hash |-> block.hash, transactions |-> <<>>])
        ELSE LET tx_start == ParseInt(transaction_range[1])
                 tx_end == ParseInt(transaction_range[2])
                 fetched == FetchTransactions(db, tx_start, tx_end, <<>>)
             IN  IF fetched.kind = "None" THEN None
                 ELSE Value([hash |-> block.hash, transactions |-> fetched.val])

get_block_by_hash(db, block_hash) ==
    LET block_index == Get(db.block_hash, block_hash)
    IN  IF block_index = <<>> THEN None
        ELSE LET block == Decode(Get(db.blocks, block_index[1]))
             IN  IF block.kind = "Error" THEN block
                 ELSE ReconstructBlock(db, block.val)

get_block_index_by_hash(db, block_index) ==
    LET raw_block == Get(db.blocks, block_index)
    IN  IF raw_block = <<>> THEN None
        ELSE Value(Decode(raw_block).val.hash)

\* The loop over range(first, last + 1) shared by get_blocks_by_datetime and
\* get_blocks_by_indexes.
RECURSIVE FetchBlocks(_, _, _, _)
FetchBlocks(db, i, last, blocks) ==
    IF i > last THEN Value(blocks)
    ELSE LET block == Decode(Get(db.blocks, Str(i)))
         IN  IF block.kind = "Error" THEN block
             ELSE LET rebuilt == ReconstructBlock(db, block.val)
                  IN  IF rebuilt.kind = "None" THEN None
                      ELSE FetchBlocks(db, i + 1, last, Append(blocks, rebuilt.val))

\* LimitReached testing one entry too late.
LimitReachedLate(counter, limit) == counter > limit /\ limit # 0

\* The break of the timestamp scan.
LimitReached(counter, limit) == counter >= limit /\ limit # 0

\* The re-check of the block index against the bounds of the scan.
IndexInBounds(block_index, block_start, block_end) ==
    ParseInt(block_index) >= block_start /\ ParseInt(block_index) <= block_end

\* The scan of the timestamp map: the block indexes collected.
RECURSIVE CollectIndexes(_, _, _, _, _, _, _)
CollectIndexes(it, k, counter, limit, block_start, block_end, block_indexes) ==
    IF k > Len(it) THEN block_indexes
    ELSE IF LimitReached(counter, limit) THEN block_indexes
    ELSE IF IndexInBounds(it[k][2], block_start, block_end)
         THEN CollectIndexes(it, k + 1, counter + 1, limit, block_start, block_end,
                             Append(block_indexes, ParseInt(it[k][2])))
         ELSE CollectIndexes(it, k + 1, counter, limit, block_start, block_end,
                             block_indexes)

\* list.sort() of integers.
RECURSIVE Sort(_)
Sort(s) ==
    IF s = <<>> THEN <<>>
    ELSE LET k == CHOOSE i \in 1..Len(s) : \A j \in 1..Len(s) : s[i] <= s[j]
         IN  <<s[k]>> \o Sort(SubSeq(s, 1, k - 1) \o SubSeq(s, k + 1, Len(s)))

get_blocks_by_datetime(db, limit, block_start, block_end) ==
    LET it == Iterator(db.block_timestamp, Str(block_start), Str(block_end))
        block_indexes == CollectIndexes(it, 1, 0, limit, block_start, block_end, <<>>)
    IN  IF block_indexes = <<>> THEN None
        ELSE LET sorted == Sort(block_indexes)
             IN  FetchBlocks(db, sorted[1], sorted[Len(sorted)], <<>>)

get_blocks_by_indexes(db, index_start, index_end) ==
    FetchBlocks(db, ParseInt(index_start), ParseInt(index_end), <<>>)

\* self.transaction_db(key): the key space object is called, not read.
CallKeySpace(kv, key) == Error("TypeError")

get_transaction_by_hash(db, tx_hash) ==
    LET found == Get(db.tx_hash, tx_hash)
    IN  IF found = <<>> THEN Error("AttributeError")
        ELSE LET tx_index == found[1]
                 raw_tx == CallKeySpace(db.transaction, tx_index)
             IN  IF raw_tx.kind = "Error" THEN raw_tx
                 ELSE Value(Decode(raw_tx.val).val)

\* The scan of the transaction key space of both get_transactions_of_block
\* variants: start and stop are both the first piece of the range.
ScanTransactions(db, transaction_range) ==
    LET it == Iterator(db.transaction, transaction_range[1], transaction_range[1])
    IN  Value([i \in 1..Len(it) |-> Decode(<<it[i][2]>>).val])

get_transactions_of_block_by_hash(db, block_hash) ==
    LET found == Get(db.block_hash, block_hash)
    IN  IF found = <<>> THEN Error("AttributeError")
        ELSE LET block == Decode(Get(db.blocks, found[1]))
             IN  IF block.kind = "Error" THEN block
                 ELSE ScanTransactions(db, Split(block.val.transactionIndexRange, Dash))

get_transactions_of_block_by_index(db, block_index) ==
    LET raw_block == Get(db.blocks, block_index)
    IN  IF raw_block = <<>> THEN None
        ELSE ScanTransactions(db, Split(Decode(raw_block).val.transactionIndexRange,
                                        Dash))

\* The filter of an address reference by time and value; flt is
\* <<time_from, time_to, val_from, val_to>>, all strings.
InFilter(timestamp, value, flt) ==
    /\ ParseInt(flt[1]) <= ParseInt(timestamp)
    /\ ParseInt(flt[2]) >= ParseInt(timestamp)
    /\ ParseInt(flt[3]) <= ParseInt(value)
    /\ ParseInt(flt[4]) >= ParseInt(value)

\* One loop of get_transactions_of_address over the pieces of a reference
\* list: unpacking a piece that is not three '+'-separated parts raises.
RECURSIVE FilterRefs(_, _, _, _, _)
FilterRefs(db, pieces, k, flt, transactions) ==
    IF k > Len(pieces) THEN Value(transactions)
    ELSE LET parts == Split(pieces[k], Plus)
         IN  IF Len(parts) # 3 THEN Error("ValueError")
             ELSE IF InFilter(parts[2], parts[3], flt)
             THEN LET tx == Decode(Get(db.transaction, parts[1]))
                  IN  IF tx.kind = "Error" THEN tx
                      ELSE FilterRefs(db, pieces, k + 1, flt,
                                      Append(transactions, tx.val))
             ELSE FilterRefs(db, pieces, k + 1, flt, transactions)

get_transactions_of_address(db, addr, flt) ==
    LET raw_address == Get(db.address, addr)
    IN  IF raw_address = <<>> THEN None
        ELSE LET address == Decode(raw_address).val
                 input_transactions ==
                     FilterRefs(db, Split(address.inputTransactionIndexes, Bar),
                                1, flt, <<>>)
                 output_transactions ==
                     FilterRefs(db, Split(address.outputTransactionIndexes, Bar),
                                1, flt, <<>>)
             IN  IF input_transactions.kind = "Error" THEN input_transactions
                 ELSE IF output_transactions.kind = "Error" THEN output_transactions
                 ELSE Value(input_transactions.val \o output_transactions.val)

\* CapReached testing one reference too early.
CapReachedEarly(counter, no_tx_list) == counter >= ParseInt(no_tx_list)

\* The break of get_address, tested after the counter was incremented.
CapReached(counter, no_tx_list) == counter > ParseInt(no_tx_list)

\* One loop of get_address: the transactions appended and the counter as
\* the loop leaves it.
RECURSIVE CappedRefs(_, _, _, _, _, _, _)
CappedRefs(db, pieces, k, flt, no_tx_list, counter, transactions) ==
    IF k > Len(pieces)
    THEN [kind |-> "Value", val |-> transactions, counter |-> counter]
    ELSE LET parts == Split(pieces[k], Plus)
         IN  IF Len(parts) # 3
             THEN [kind |-> "Error", val |-> "ValueError", counter |-> counter]
             ELSE IF InFilter(parts[2], parts[3], flt)
             THEN IF CapReached(counter + 1, no_tx_list)
                  THEN [kind |-> "Value", val |-> transactions,
                        counter |-> counter + 1]
                  ELSE LET tx == Decode(Get(db.transaction, parts[1]))
                       IN  IF tx.kind = "Error"
                           THEN [kind |-> "Error", val |-> tx.val,
                                 counter |-> counter + 1]
                           ELSE CappedRefs(db, pieces, k + 1, flt, no_tx_list,
                                           counter + 1, Append(transactions, tx.val))
             ELSE CappedRefs(db, pieces, k + 1, flt, no_tx_list, counter,
                             transactions)

\* The counter the output loop of get_address starts from.
OutputCounter(input_counter) == input_counter

get_address(db, addr, flt, no_tx_list) ==
    LET raw_address == Get(db.address, addr)
    IN  IF raw_address = <<>> THEN None
        ELSE LET address == Decode(raw_address).val
                 inputs == CappedRefs(db, Split(address.inputTransactionIndexes, Bar),
                                      1, flt, no_tx_list, 0, <<>>)
                 outputs == CappedRefs(db, Split(address.outputTransactionIndexes, Bar),
                                       1, flt, no_tx_list,
                                       OutputCounter(inputs.counter), <<>>)
             IN  IF inputs.kind = "Error" THEN Error(inputs.val)
                 ELSE IF outputs.kind = "Error" THEN Error(outputs.val)
                 ELSE Value([balance |-> address.balance,
                             inputTransactions |-> inputs.val,
                             outputTransactions |-> outputs.val])

get_balance(db, addr) ==
    LET raw_address == Get(db.address, addr)
    IN  IF raw_address = <<>> THEN None
        ELSE Value(Decode(raw_address).val.balance)

(***************************************************************************)
(* Store contents.  Block i has hash "h<i>" and owns the transactions      *)
(* after the previous block's up to cuts[i]; transaction j has hash        *)
(* "t<j>", timestamp j and value MaxTx + 1 - j; the one address "a1" lists *)
(* references  index+timestamp+value  joined by '|'.                       *)
(***************************************************************************)
Blocks == 1..MaxBlock
Txs == 1..MaxTx

Hash(i) == <<LetterH>> \o Str(i)
TxHash(j) == <<LetterT>> \o Str(j)
Addr(k) == <<LetterA>> \o Str(k)
AbsentHash == <<LetterH, LetterX>>
AbsentTxHash == <<LetterT, LetterX>>
AbsentAddr == <<LetterA, LetterX>>

TxTime(j) == j
TxValue(j) == MaxTx + 1 - j
TxRecord(j) == [index |-> j, hash |-> TxHash(j)]

RangeStr(first, last) ==
    IF first > last THEN <<>> ELSE Str(first) \o <<Dash>> \o Str(last)

BlockRecord(i, cuts) ==
    [hash |-> Hash(i),
     transactionIndexRange |->
         RangeStr((IF i = 1 THEN 0 ELSE cuts[i - 1]) + 1, cuts[i])]

RefStr(j) == Str(j) \o <<Plus>> \o Str(TxTime(j)) \o <<Plus>> \o Str(TxValue(j))

RECURSIVE RefList(_)
RefList(refs) ==
    IF refs = <<>> THEN <<>>
    ELSE IF Len(refs) = 1 THEN RefStr(refs[1])
    ELSE RefStr(refs[1]) \o <<Bar>> \o RefList(Tail(refs))

Balance == Str(MaxTx) \o Str(0)

MkStore(blockSet, cuts, txSet, stamps, inRefs, outRefs) ==
    [blocks |-> [k \in {Str(i) : i \in blockSet} |-> BlockRecord(ParseInt(k), cuts)],
     block_hash |-> [h \in {Hash(i) : i \in Blocks} |-> Tail(h)],
     block_timestamp |->
         [k \in {Str(stamps[i]) : i \in Blocks} |->
             Str(CHOOSE i \in Blocks :
                   /\ stamps[i] = ParseInt(k)
                   /\ \A o \in Blocks : stamps[o] = ParseInt(k) => o <= i)],
     transaction |-> [k \in {Str(j) : j \in txSet} |-> TxRecord(ParseInt(k))],
     tx_hash |-> [h \in {TxHash(j) : j \in Txs} |-> Tail(h)],
     address |-> [a \in {Addr(1)} |->
                     [balance |-> Balance,
                      inputTransactionIndexes |-> RefList(inRefs),
                      outputTransactionIndexes |-> RefList(outRefs)]]]

\* All of a set, or all but one element.
AllButOne(S) == {S} \cup {S \ {x} : x \in S}

\* Every block owns a contiguous range after the previous block's.
Cuts == {c \in [Blocks -> 0..MaxTx] : \A i \in Blocks : i > 1 => c[i - 1] <= c[i]}
DefaultCuts == [i \in Blocks |-> IF i < MaxTx THEN i ELSE MaxTx]
DefaultStamps == [i \in Blocks |-> i]
Times == Blocks \cup {BigTime}

\* Lists of references without repetition.
RefLists == UNION {{q \in [1..n -> Txs] : \A i, j \in 1..n : i # j => q[i] # q[j]}
                   : n \in 0..MaxTx}

BaseStores ==
    {MkStore(bs, DefaultCuts, ts, DefaultStamps, <<1>>, <<MaxTx>>)
       : bs \in AllButOne(Blocks), ts \in AllButOne(Txs)}

BlockStores ==
    {MkStore(bs, c, ts, DefaultStamps, <<1>>, <<MaxTx>>)
       : bs \in AllButOne(Blocks), c \in Cuts, ts \in AllButOne(Txs)}
    \cup
    {MkStore(Blocks, DefaultCuts, Txs, st, <<1>>, <<MaxTx>>) : st \in [Blocks -> Times]}

AddressStores ==
    {MkStore(Blocks, DefaultCuts, ts, DefaultStamps, i, o)
       : ts \in AllButOne(Txs), i \in RefLists, o \in RefLists}

(***************************************************************************)
(* Arguments of the requests.                                              *)
(***************************************************************************)
HashArgs == {Hash(i) : i \in Blocks} \cup {AbsentHash}
IndexArgs == {Str(i) : i \in 1..(MaxBlock + 1)}
TxHashArgs == {TxHash(j) : j \in Txs} \cup {AbsentTxHash}
AddrArgs == {Addr(1), AbsentAddr}
LimitArgs == 0..MaxLimit
StartArgs == 0..MaxBlock
EndArgs == (0..MaxBlock) \cup {BigTime}
Windows == {w \in Txs \X Txs : w[1] <= w[2]}
Filters == {<<Str(t[1]), Str(t[2]), Str(v[1]), Str(v[2])>> : t \in Windows, v \in Windows}

(***************************************************************************)
(* The state: the store on disk, the process-wide lock (its holder, 0 when *)
(* free), and per request the wrapper's position, whether its local db is  *)
(* an open handle, the query it runs and the query's result.               *)
(***************************************************************************)
VARIABLES store, db_lock, pc, db, call, value

vars == <<store, db_lock, pc, db, call, value>>

Requests == 1..NumRequests
NoCall == [op |-> "none", args |-> <<>>]
NoValue == [kind |-> "Pending", val |-> "Pending"]

\* The requests of `active` are about to arrive; the other workers serve
\* no request ("off").
InitRequests(active) ==
    /\ db_lock = 0
    /\ pc = [r \in Requests |-> IF r \in active THEN "idle" ELSE "off"]
    /\ db = [r \in Requests |-> FALSE]
    /\ call = [r \in Requests |-> NoCall]
    /\ value = [r \in Requests |-> NoValue]

Init == store \in BaseStores /\ InitRequests(Requests)
InitBlocks == store \in BlockStores /\ InitRequests({1})
InitAddress == store \in AddressStores /\ InitRequests({1})

\* A request enters the wrapper and reads DB_LOCATION and DB_LOCK.
Enter(r) ==
    /\ pc[r] = "idle"
    /\ pc' = [pc EXCEPT ![r] = "waiting"]
    /\ UNCHANGED <<store, db_lock, db, call, value>>

\* An acquire() that never blocks.
AcquireAnyway == TRUE

\* db_lock.acquire() goes through when the lock is free.
CanAcquire == db_lock = 0

Acquire(r) ==
    /\ pc[r] = "waiting"
    /\ CanAcquire
    /\ db_lock' = r
    /\ pc' = [pc EXCEPT ![r] = "acquired"]
    /\ UNCHANGED <<store, db, call, value>>

\* db = rocksdb.DB(db_path, ..., read_only=True)
Open(r) ==
    /\ pc[r] = "acquired"
    /\ db' = [db EXCEPT ![r] = TRUE]
    /\ pc' = [pc EXCEPT ![r] = "opened"]
    /\ UNCHANGED <<store, db_lock, call, value>>

\* value = function(*args, **kwargs, db=db): the query returns its result,
\* or an exception leaves the wrapper at this line.
Run(r, op, args, result) ==
    /\ pc[r] = "opened"
    /\ call' = [call EXCEPT ![r] = [op |-> op, args |-> args]]
    /\ value' = [value EXCEPT ![r] = result]
    /\ pc' = [pc EXCEPT ![r] = IF result.kind = "Error" THEN "raised" ELSE "called"]
    /\ UNCHANGED <<store, db_lock, db>>

BlockByHash(r) ==
    \E h \in HashArgs : Run(r, "get_block_by_hash", <<h>>, get_block_by_hash(store, h))

BlockIndexByHash(r) ==
    \E i \in IndexArgs :
        Run(r, "get_block_index_by_hash", <<i>>, get_block_index_by_hash(store, i))

BlocksByDatetime(r) ==
    \E limit \in LimitArgs, s \in StartArgs, e \in EndArgs :
        Run(r, "get_blocks_by_datetime", <<limit, s, e>>,
            get_blocks_by_datetime(store, limit, s, e))

BlocksByIndexes(r) ==
    \E s \in Blocks, e \in Blocks :
        Run(r, "get_blocks_by_indexes", <<Str(s), Str(e)>>,
            get_blocks_by_indexes(store, Str(s), Str(e)))

TransactionByHash(r) ==
    \E h \in TxHashArgs :
        Run(r, "get_transaction_by_hash", <<h>>, get_transaction_by_hash(store, h))

TransactionsOfBlockByHash(r) ==
    \E h \in HashArgs :
        Run(r, "get_transactions_of_block_by_hash", <<h>>,
            get_transactions_of_block_by_hash(store, h))

TransactionsOfBlockByIndex(r) ==
    \E i \in IndexArgs :
        Run(r, "get_transactions_of_block_by_index", <<i>>,
            get_transactions_of_block_by_index(store, i))

TransactionsOfAddress(r) ==
    \E a \in AddrArgs, f \in Filters :
        Run(r, "get_transactions_of_address", <<a, f>>,
            get_transactions_of_address(store, a, f))

AddressSummary(r) ==
    \E a \in AddrArgs, f \in Filters, n \in LimitArgs :
        Run(r, "get_address", <<a, f, Str(n)>>, get_address(store, a, f, Str(n)))

BalanceOf(r) ==
    \E a \in AddrArgs : Run(r, "get_balance", <<a>>, get_balance(store, a))

\* del db
Close(r) ==
    /\ pc[r] = "called"
    /\ db' = [db EXCEPT ![r] = FALSE]
    /\ pc' = [pc EXCEPT ![r] = "closed"]
    /\ UNCHANGED <<store, db_lock, call, value>>

\* db_lock.release(); return value
Release(r) ==
    /\ pc[r] = "closed"
    /\ db_lock' = 0
    /\ pc' = [pc EXCEPT ![r] = "idle"]
    /\ call' = [call EXCEPT ![r] = NoCall]
    /\ value' = [value EXCEPT ![r] = NoValue]
    /\ UNCHANGED <<store, db>>

\* The query raised: the exception leaves wrapper before `del db` and
\* db_lock.release().  The local db goes when the wrapper's frame does, which
\* is when the caller drops the traceback: the handle is finalised then, at any
\* later moment or never.  The lock stays acquired.
Unwind(r) ==
    /\ pc[r] = "raised"
    /\ db[r]
    /\ db' = [db EXCEPT ![r] = FALSE]
    /\ UNCHANGED <<store, db_lock, pc, call, value>>

NextBlocks ==
    \E r \in Requests :
        \/ Enter(r)
        \/ Acquire(r)
        \/ Open(r)
        \/ BlockByHash(r)
        \/ BlockIndexByHash(r)
        \/ BlocksByDatetime(r)
        \/ BlocksByIndexes(r)
        \/ TransactionsOfBlockByHash(r)
        \/ TransactionsOfBlockByIndex(r)
        \/ Close(r)
        \/ Release(r)
        \/ Unwind(r)

NextAddress ==
    \E r \in Requests :
        \/ Enter(r)
        \/ Acquire(r)
        \/ Open(r)
        \/ TransactionsOfAddress(r)
        \/ AddressSummary(r)
        \/ BalanceOf(r)
        \/ Close(r)
        \/ Release(r)
        \/ Unwind(r)

Next ==
    \E r \in Requests :
        \/ Enter(r)
        \/ Acquire(r)
        \/ Open(r)
        \/ BlockByHash(r)
        \/ BlockIndexByHash(r)
        \/ BlocksByDatetime(r)
        \/ BlocksByIndexes(r)
        \/ TransactionByHash(r)
        \/ TransactionsOfBlockByHash(r)
        \/ TransactionsOfBlockByIndex(r)
        \/ TransactionsOfAddress(r)
        \/ AddressSummary(r)
        \/ BalanceOf(r)
        \/ Close(r)
        \/ Release(r)
        \/ Unwind(r)

\* Concurrent requests to every endpoint over a few stores.
Spec == Init /\ [][Next]_vars
\* One request after another to the block endpoints, over stores that vary
\* the stored blocks, their ranges, the stored transactions and the timestamps.
SpecBlocks == InitBlocks /\ [][NextBlocks]_vars
\* One request after another to the address endpoints, over stores that vary
\* the address's references and the stored transactions.
SpecAddress == InitAddress /\ [][NextAddress]_vars

(***************************************************************************)
(* Vocabulary of the properties.                                           *)
(***************************************************************************)
\* The query of request r has run: its result is in value[r].
Finished(r) == pc[r] \in {"called", "closed", "raised"}
\* Request r is between acquire() and release().
Holding(r) == pc[r] \in {"acquired", "opened", "called", "closed", "raised"}

Min(a, b) == IF a <= b THEN a ELSE b
Least(q) == CHOOSE x \in {q[i] : i \in 1..Len(q)} : \A i \in 1..Len(q) : x <= q[i]
Greatest(q) == CHOOSE x \in {q[i] : i \in 1..Len(q)} : \A i \in 1..Len(q) : x >= q[i]

StoredBlock(i) == Str(i) \in DOMAIN store.blocks
StoredTx(j) == Str(j) \in DOMAIN store.transaction

\* The declared range <<s, e>> of stored block i; <<1, 0>> when it is empty.
DeclaredRange(i) ==
    LET rg == store.blocks[Str(i)].transactionIndexRange
    IN  IF rg = <<>> THEN <<1, 0>>
        ELSE <<ParseInt(Split(rg, Dash)[1]), ParseInt(Split(rg, Dash)[2])>>

\* Every index of stored block i's declared range is stored.
Complete(i) == \A j \in DeclaredRange(i)[1]..DeclaredRange(i)[2] : StoredTx(j)
Good(i) == StoredBlock(i) /\ Complete(i)

\* Stored block i with the transactions s, s+1, ..., e of its range.
FullBlock(i) ==
    LET rg == DeclaredRange(i)
    IN  [hash |-> store.blocks[Str(i)].hash,
         transactions |-> [k \in 1..(rg[2] - rg[1] + 1) |->
                              store.transaction[Str(rg[1] + k - 1)]]]

BlockList(first, last) == [k \in 1..(last - first + 1) |-> FullBlock(first + k - 1)]

\* The block indexes get_blocks_by_datetime(limit, s, e) collects: of the
\* entries of the timestamp map scanned over [s, e], those whose block index
\* lies in [s, e], in scan order, the first `limit` of them unless limit = 0.
Collected(limit, s, e) ==
    LET it == Iterator(store.block_timestamp, Str(s), Str(e))
        indexes == [i \in 1..Len(it) |-> ParseInt(it[i][2])]
        Within(v) == s <= v /\ v <= e
        within == SelectSeq(indexes, Within)
    IN  IF limit = 0 THEN within ELSE SubSeq(within, 1, Min(limit, Len(within)))

\* The first and last block index a block query visits; <<1, 0>> when it
\* visits none.
SpanOf(c) ==
    IF c.op = "get_block_by_hash"
    THEN IF c.args[1] \in DOMAIN store.block_hash
         THEN <<ParseInt(store.block_hash[c.args[1]]),
                ParseInt(store.block_hash[c.args[1]])>>
         ELSE <<1, 0>>
    ELSE IF c.op = "get_blocks_by_indexes"
    THEN <<ParseInt(c.args[1]), ParseInt(c.args[2])>>
    ELSE LET got == Collected(c.args[1], c.args[2], c.args[3])
         IN  IF got = <<>> THEN <<1, 0>> ELSE <<Least(got), Greatest(got)>>

\* The query has at least its first lookup behind it: the hash is mapped,
\* or the scan collected an index.
HasSpan(c) ==
    IF c.op = "get_block_by_hash" THEN c.args[1] \in DOMAIN store.block_hash
    ELSE IF c.op = "get_blocks_by_datetime"
    THEN Collected(c.args[1], c.args[2], c.args[3]) # <<>>
    ELSE TRUE

\* The references of a '|'-joined list, each <<index, timestamp, value>>.
RefsOf(s) ==
    IF s = <<>> THEN <<>>
    ELSE LET pieces == Split(s, Bar)
         IN  [i \in 1..Len(pieces) |-> Split(pieces[i], Plus)]

InputRefs(addr) == RefsOf(store.address[addr].inputTransactionIndexes)
OutputRefs(addr) == RefsOf(store.address[addr].outputTransactionIndexes)
Resolves(ref) == ref[1] \in DOMAIN store.transaction
AllResolve(refs) == \A i \in 1..Len(refs) : Resolves(refs[i])

\* time_from <= timestamp <= time_to and val_from <= value <= val_to
Passes(ref, flt) ==
    /\ ParseInt(flt[1]) <= ParseInt(ref[2]) /\ ParseInt(ref[2]) <= ParseInt(flt[2])
    /\ ParseInt(flt[3]) <= ParseInt(ref[3]) /\ ParseInt(ref[3]) <= ParseInt(flt[4])

Matching(refs, flt) == LET P(ref) == Passes(ref, flt) IN SelectSeq(refs, P)
TxsOf(refs) == [i \in 1..Len(refs) |-> store.transaction[refs[i][1]]]

\* The key the query looks up first is not in its key space.
PrimaryAbsent(c) ==
    \/ /\ c.op \in {"get_block_by_hash", "get_transactions_of_block_by_hash"}
       /\ c.args[1] \notin DOMAIN store.block_hash
    \/ /\ c.op \in {"get_block_index_by_hash", "get_transactions_of_block_by_index"}
       /\ c.args[1] \notin DOMAIN store.blocks
    \/ /\ c.op = "get_transaction_by_hash"
       /\ c.args[1] \notin DOMAIN store.tx_hash
    \/ /\ c.op \in {"get_transactions_of_address", "get_address", "get_balance"}
       /\ c.args[1] \notin DOMAIN store.address

(***************************************************************************)
(* Properties.                                                             *)
(***************************************************************************)

\* C1: at any instant at most one request is between acquiring the DB lock
\* and releasing it, and at most one holds an open store handle.
C1_MutualExclusion ==
    \A r, q \in Requests :
        /\ (Holding(r) /\ Holding(q)) => r = q
        /\ (db[r] /\ db[q]) => r = q

\* A request has run its query on its open handle while another one waits
\* for the lock.
C1_Witness ==
    \E r, q \in Requests :
        r # q /\ pc[r] = "called" /\ db[r] /\ db_lock = r /\ pc[q] = "waiting"

\* C2: block reconstruction is all-or-nothing in get_block_by_hash,
\* get_blocks_by_datetime and get_blocks_by_indexes.  When the query comes to
\* a block one of whose declared indexes is missing, the whole call returns
\* None; a call that returns a value returns, for every block it visited,
\* exactly the transactions s, s+1, ..., e of the block's declared range
\* (none for an empty range), never a partial list; and it does return that
\* value when every visited block has all of its range stored.
C2_AllOrNothing ==
    \A r \in Requests :
        (/\ Finished(r)
         /\ call[r].op \in {"get_block_by_hash", "get_blocks_by_datetime",
                            "get_blocks_by_indexes"})
        => LET sp == SpanOf(call[r])
               Reached(i) == StoredBlock(i) /\ \A k \in sp[1]..(i - 1) : Good(k)
           IN  /\ (\E i \in sp[1]..sp[2] : Reached(i) /\ ~Complete(i))
                      => value[r].kind = "None"
               /\ value[r].kind = "Value"
                      => /\ \A i \in sp[1]..sp[2] : Good(i)
                         /\ value[r].val =
                                IF call[r].op = "get_block_by_hash"
                                THEN FullBlock(sp[1])
                                ELSE BlockList(sp[1], sp[2])
               /\ (HasSpan(call[r]) /\ \A i \in sp[1]..sp[2] : Good(i))
                      => value[r].kind = "Value"

\* get_blocks_by_indexes rebuilt a first block with a non-empty range, then
\* came to a block with a missing transaction and returned None.
C2_Witness ==
    \E r \in Requests :
        /\ Finished(r)
        /\ call[r].op = "get_blocks_by_indexes"
        /\ value[r].kind = "None"
        /\ LET sp == SpanOf(call[r])
           IN  /\ sp[1] < sp[2]
               /\ Good(sp[1])
               /\ DeclaredRange(sp[1])[1] <= DeclaredRange(sp[1])[2]
               /\ StoredBlock(sp[1] + 1)
               /\ ~Complete(sp[1] + 1)

\* C3: when the primary key given by the caller is absent at the first
\* lookup, each of the eight lookups returns None and raises no error.
C3_AbsenceIsNone ==
    \A r \in Requests :
        (Finished(r) /\ PrimaryAbsent(call[r])) => value[r].kind = "None"

\* C4: get_transaction_by_hash(h), with h mapped to i and transaction i
\* stored, returns the decoded record of transaction i.
C4_TransactionByHash ==
    \A r \in Requests :
        (/\ Finished(r)
         /\ call[r].op = "get_transaction_by_hash"
         /\ call[r].args[1] \in DOMAIN store.tx_hash
         /\ store.tx_hash[call[r].args[1]] \in DOMAIN store.transaction)
        => /\ value[r].kind = "Value"
           /\ value[r].val = store.transaction[store.tx_hash[call[r].args[1]]]

\* C5: get_transactions_of_address on a stored address whose references all
\* resolve (zero or more per list) returns the transactions of the input
\* references passing the filter, in stored order, followed by those of the
\* output references passing it.
C5_AddressFilter ==
    \A r \in Requests :
        (/\ Finished(r)
         /\ call[r].op = "get_transactions_of_address"
         /\ call[r].args[1] \in DOMAIN store.address
         /\ AllResolve(InputRefs(call[r].args[1]))
         /\ AllResolve(OutputRefs(call[r].args[1])))
        => /\ value[r].kind = "Value"
           /\ value[r].val =
                  TxsOf(Matching(InputRefs(call[r].args[1]), call[r].args[2]))
                  \o TxsOf(Matching(OutputRefs(call[r].args[1]), call[r].args[2]))

\* C6: get_address on a stored address with at least one input and one
\* output reference, all resolving: inputTransactions and outputTransactions
\* together are the first min(max_tx, m) of the m references passing the
\* filter, inputs before outputs, and the balance is the stored one.
C6_GlobalCap ==
    \A r \in Requests :
        (/\ Finished(r)
         /\ call[r].op = "get_address"
         /\ call[r].args[1] \in DOMAIN store.address
         /\ InputRefs(call[r].args[1]) # <<>>
         /\ OutputRefs(call[r].args[1]) # <<>>
         /\ AllResolve(InputRefs(call[r].args[1]))
         /\ AllResolve(OutputRefs(call[r].args[1])))
        => LET ins == Matching(InputRefs(call[r].args[1]), call[r].args[2])
               outs == Matching(OutputRefs(call[r].args[1]), call[r].args[2])
               n == Min(ParseInt(call[r].args[3]), Len(ins) + Len(outs))
               n_in == Min(n, Len(ins))
           IN  /\ value[r].kind = "Value"
               /\ value[r].val.inputTransactions = TxsOf(SubSeq(ins, 1, n_in))
               /\ value[r].val.outputTransactions = TxsOf(SubSeq(outs, 1, n - n_in))
               /\ Len(value[r].val.inputTransactions)
                      + Len(value[r].val.outputTransactions) = n
               /\ value[r].val.balance = store.address[call[r].args[1]].balance

\* get_address returned with the input side alone reaching the cap, while an
\* output reference passing the filter was left out.
C6_Witness ==
    \E r \in Requests :
        /\ Finished(r)
        /\ call[r].op = "get_address"
        /\ value[r].kind = "Value"
        /\ AllResolve(InputRefs(call[r].args[1]))
        /\ AllResolve(OutputRefs(call[r].args[1]))
        /\ ParseInt(call[r].args[3]) >= 1
        /\ Len(value[r].val.inputTransactions) = ParseInt(call[r].args[3])
        /\ value[r].val.outputTransactions = <<>>
        /\ Matching(OutputRefs(call[r].args[1]), call[r].args[2]) # <<>>

\* C7: both get_transactions_of_block variants, for a stored block with
\* declared range [tx_start, tx_end], return every stored transaction whose
\* key lies between tx_start and tx_end inclusive.
C7_ScanWholeRange ==
    \A r \in Requests :
        (/\ Finished(r)
         /\ call[r].op \in {"get_transactions_of_block_by_hash",
                            "get_transactions_of_block_by_index"}
         /\ ~PrimaryAbsent(call[r])
         /\ StoredBlock(IF call[r].op = "get_transactions_of_block_by_hash"
                        THEN ParseInt(store.block_hash[call[r].args[1]])
                        ELSE ParseInt(call[r].args[1])))
        => LET i == IF call[r].op = "get_transactions_of_block_by_hash"
                    THEN ParseInt(store.block_hash[call[r].args[1]])
                    ELSE ParseInt(call[r].args[1])
               rg == DeclaredRange(i)
               it == Iterator(store.transaction, Str(rg[1]), Str(rg[2]))
           IN  /\ value[r].kind = "Value"
               /\ value[r].val = [k \in 1..Len(it) |-> it[k][2]]
               /\ Complete(i) => Len(value[r].val) = rg[2] - rg[1] + 1

\* C8: get_blocks_by_datetime returns None when the scan collects nothing;
\* otherwise, every block and transaction of the span being stored, it
\* returns one block for every index from the least to the greatest
\* collected index, in ascending order.
C8_DatetimeSpan ==
    \A r \in Requests :
        (Finished(r) /\ call[r].op = "get_blocks_by_datetime")
        => LET got == Collected(call[r].args[1], call[r].args[2], call[r].args[3])
           IN  /\ got = <<>> => value[r].kind = "None"
               /\ (got # <<>> /\ \A i \in Least(got)..Greatest(got) : Good(i))
                      => /\ value[r].kind = "Value"
                         /\ value[r].val = BlockList(Least(got), Greatest(got))

\* get_blocks_by_datetime returned more blocks than the scan collected: a
\* limit cut the scan short and the span still holds an index in between.
C8_Witness ==
    \E r \in Requests :
        /\ Finished(r)
        /\ call[r].op = "get_blocks_by_datetime"
        /\ call[r].args[1] > 0
        /\ value[r].kind = "Value"
        /\ Len(value[r].val)
               > Len(Collected(call[r].args[1], call[r].args[2], call[r].args[3]))

\* C9: get_transactions_of_address and get_address return None, not an
\* error, when a reference passing the filter names a transaction that is
\* not stored (stated for an address with references in both lists).
C9_CorruptionIsNone ==
    \A r \in Requests :
        (/\ Finished(r)
         /\ call[r].op \in {"get_transactions_of_address", "get_address"}
         /\ call[r].args[1] \in DOMAIN store.address
         /\ InputRefs(call[r].args[1]) # <<>>
         /\ OutputRefs(call[r].args[1]) # <<>>
         /\ \E ref \in {InputRefs(call[r].args[1])[i]
                          : i \in 1..Len(InputRefs(call[r].args[1]))}
                   \cup {OutputRefs(call[r].args[1])[i]
                          : i \in 1..Len(OutputRefs(call[r].args[1]))} :
                Passes(ref, call[r].args[2]) /\ ~Resolves(ref))
        => value[r].kind = "None"

\* C10: a request that has left the wrapper, by returning or with the
\* query's error, has given the DB lock back.
C10_LockGivenBack ==
    \A r \in Requests : pc[r] \in {"idle", "raised"} => db_lock # r

=============================================================================
